---- MODULE Spec2Model ----
(***************************************************************************)
(* Model of src/main.py: the command entry points download, upload,        *)
(* youtube_to_s3 and check_config, and the two helpers download_video and  *)
(* upload_file_to_s3.  One behaviour is one process run of one command.    *)
(* The external collaborators (yt_dlp, boto3, decouple, argparse) are      *)
(* nondeterministic: each call either returns or raises one of the         *)
(* exception classes it can raise, and the handlers of main.py decide      *)
(* what is caught.                                                         *)
(***************************************************************************)
EXTENDS Integers, Sequences, FiniteSets, TLC

VARIABLES cmd, pc, envSet, fileExists, exitCode, tempDir, dirFiles,
          dlPath, dlTitle, title, dvStatus, fetchRaised,
          upStatus, headRes, calls, exc,
          idx, missing, attempted, lastPrinted

vars == <<cmd, pc, envSet, fileExists, exitCode, tempDir, dirFiles,
          dlPath, dlTitle, title, dvStatus, fetchRaised,
          upStatus, headRes, calls, exc,
          idx, missing, attempted, lastPrinted>>

dvVars == <<dirFiles, dlPath, dlTitle, title, dvStatus, fetchRaised>>
upVars == <<upStatus, headRes, calls>>
ccVars == <<idx, missing, attempted, lastPrinted>>

(* ---------------------------- bounds ----------------------------------- *)
\* longest configuration value read by check_config
MaxLen == 5
\* most directory entries the fetch library leaves in the temporary directory
MaxEntries == 2

(* --------------------------- constants --------------------------------- *)
Commands == {"download", "upload", "youtube_to_s3", "check_config"}

\* required_vars of check_config, in source order
required_vars == <<"AWS_ACCESS_KEY_ID", "AWS_SECRET_ACCESS_KEY", "AWS_STORAGE_BUCKET_NAME">>
RequiredSet == {required_vars[i] : i \in DOMAIN required_vars}

\* number of trailing characters check_config shows literally
ShownChars == 4

Chars == {"a", "b", "*"}
Values == UNION {[1..n -> Chars] : n \in 0..MaxLen}

None == "None"
NoPath == 0
\* exitCode is empty while the process runs, then holds the exit status
NoExit == <<>>

\* exception classes the collaborators raise; all derive from Exception
FetchErrors == {"DownloadError"}
HeadErrors == {"ClientError", "EndpointConnectionError"}
UploadErrors == {"ClientError", "S3UploadFailedError"}

\* what ydl.extract_info may return: a dict with or without a title
Infos == {[title |-> "clip"], [id |-> "x"]}

EntryKinds == {"file", "dir"}
DirContents == UNION {[1..n -> EntryKinds] : n \in 0..MaxEntries}

(* ------------------------- pure helpers -------------------------------- *)
\* `except Exception` / `except ClientError`: which raised classes a handler catches
Catches(handler, e) ==
    IF handler = "Exception" THEN TRUE ELSE e = handler

TempDirExit_Leak(d) == d

\* tempfile.TemporaryDirectory.__exit__: the directory is removed when the
\* with-block is left, normally or by an exception (SystemExit included)
TempDirExit(d) == IF d = "exists" THEN "removed" ELSE d

\* info.get('title', 'video')
InfoGet(info) == IF "title" \in DOMAIN info THEN info.title ELSE "video"

\* for file in output_path.glob("*"): if file.is_file(): return file
RECURSIVE FirstFile(_, _)
FirstFile(entries, i) ==
    IF i > Len(entries) THEN NoPath
    ELSE IF entries[i] = "file" THEN i
    ELSE FirstFile(entries, i + 1)

\* '*' * n  (empty for n <= 0)
Repeat(c, n) == IF n <= 0 THEN <<>> ELSE [i \in 1..n |-> c]

\* value[-4:]
LastChars(value, n) ==
    IF Len(value) <= n THEN value ELSE SubSeq(value, Len(value) - n + 1, Len(value))

Mask_OffByOne(value) == Repeat("*", Len(value) - ShownChars) \o LastChars(value, ShownChars - 1)

\* '*' * (len(value) - 4) + value[-4:]
Mask(value) == Repeat("*", Len(value) - ShownChars) \o LastChars(value, ShownChars)

\* where download_video / upload_file_to_s3 return to
DvContinuation == IF cmd = "download" THEN "dl_after" ELSE "yt_after_dl"
UpContinuation == IF cmd = "upload" THEN "upl_after" ELSE "yt_after_up"

(* ----------------------------- Init ------------------------------------ *)
Init ==
    /\ cmd \in Commands
    /\ pc = "start"
    /\ envSet \in SUBSET RequiredSet
    /\ fileExists \in (IF cmd = "upload" THEN BOOLEAN ELSE {FALSE})
    /\ exitCode = NoExit
    /\ tempDir = "none"
    /\ dirFiles = <<>>
    /\ dlPath = NoPath
    /\ dlTitle = None
    /\ title = None
    /\ dvStatus = "notcalled"
    /\ fetchRaised = "none"
    /\ upStatus = "notcalled"
    /\ headRes = "none"
    /\ calls = <<>>
    /\ exc = "none"
    /\ idx = 1
    /\ missing = <<>>
    /\ attempted = <<>>
    /\ lastPrinted = [var |-> "", value |-> <<>>, masked |-> <<>>]

(* ------------------------- download_video ------------------------------ *)
\* a raise inside the try block of download_video, seen by `except Exception`
DvOnRaise(e, phase, files) ==
    /\ fetchRaised' = phase
    /\ dirFiles' = files
    /\ IF Catches("Exception", e)
       THEN /\ dlPath' = NoPath
            /\ dlTitle' = None
            /\ dvStatus' = "returned"
            /\ pc' = DvContinuation
            /\ exc' = exc
       ELSE /\ dvStatus' = "raised"
            /\ pc' = "unwind"
            /\ exc' = e
            /\ UNCHANGED <<dlPath, dlTitle>>

\* YoutubeDL(...) and ydl.extract_info(url, download=False)
DvExtract ==
    /\ pc = "dv_extract"
    /\ \/ \E info \in Infos :
            /\ title' = InfoGet(info)
            /\ pc' = "dv_download"
            /\ UNCHANGED <<dirFiles, dlPath, dlTitle, dvStatus, fetchRaised, exc>>
       \/ \E e \in FetchErrors :
            /\ DvOnRaise(e, "extract_info", dirFiles)
            /\ UNCHANGED title
    /\ UNCHANGED <<cmd, envSet, fileExists, exitCode, tempDir>>
    /\ UNCHANGED upVars
    /\ UNCHANGED ccVars

DvDownload_Uncaught ==
    /\ pc = "dv_download"
    /\ \E files \in DirContents :
        \/ /\ dirFiles' = files
           /\ pc' = "dv_scan"
           /\ UNCHANGED <<dlPath, dlTitle, dvStatus, fetchRaised, exc>>
        \/ \E e \in FetchErrors :
             /\ fetchRaised' = "download"
             /\ dirFiles' = files
             /\ dvStatus' = "raised"
             /\ pc' = "unwind"
             /\ exc' = e
             /\ UNCHANGED <<dlPath, dlTitle>>
    /\ UNCHANGED <<cmd, envSet, fileExists, exitCode, tempDir, title>>
    /\ UNCHANGED upVars
    /\ UNCHANGED ccVars

\* ydl.download([url]); a raise may leave partial files behind
DvDownload ==
    /\ pc = "dv_download"
    /\ \E files \in DirContents :
        \/ /\ dirFiles' = files
           /\ pc' = "dv_scan"
           /\ UNCHANGED <<dlPath, dlTitle, dvStatus, fetchRaised, exc>>
        \/ \E e \in FetchErrors : DvOnRaise(e, "download", files)
    /\ UNCHANGED <<cmd, envSet, fileExists, exitCode, tempDir, title>>
    /\ UNCHANGED upVars
    /\ UNCHANGED ccVars

DvScan_AnyEntry ==
    /\ pc = "dv_scan"
    /\ IF Len(dirFiles) > 0
       THEN /\ dlPath' = 1
            /\ dlTitle' = title
       ELSE /\ dlPath' = NoPath
            /\ dlTitle' = None
    /\ dvStatus' = "returned"
    /\ pc' = DvContinuation
    /\ UNCHANGED <<cmd, envSet, fileExists, exitCode, tempDir, dirFiles, title,
                   fetchRaised, exc>>
    /\ UNCHANGED upVars
    /\ UNCHANGED ccVars

\* the scan of output_path and the two return statements after it
DvScan ==
    /\ pc = "dv_scan"
    /\ LET f == FirstFile(dirFiles, 1) IN
         IF f # NoPath
         THEN /\ dlPath' = f
              /\ dlTitle' = title
         ELSE /\ dlPath' = NoPath
              /\ dlTitle' = None
    /\ dvStatus' = "returned"
    /\ pc' = DvContinuation
    /\ UNCHANGED <<cmd, envSet, fileExists, exitCode, tempDir, dirFiles, title,
                   fetchRaised, exc>>
    /\ UNCHANGED upVars
    /\ UNCHANGED ccVars

(* ------------------------ upload_file_to_s3 ---------------------------- *)
\* an entry of the log of storage-client calls
Call(op) == [op |-> op, dir |-> tempDir]

\* an exception no handler of upload_file_to_s3 catches
UpPropagate(e) ==
    /\ upStatus' = "raised"
    /\ exc' = e
    /\ pc' = "unwind"

\* s3_client = get_s3_client(): config() of the two credentials, then boto3.client
UpClient ==
    /\ pc = "up_client"
    /\ IF {"AWS_ACCESS_KEY_ID", "AWS_SECRET_ACCESS_KEY"} \subseteq envSet
       THEN /\ calls' = Append(calls, Call("client"))
            /\ pc' = "up_bucket"
            /\ UNCHANGED <<upStatus, exc>>
       ELSE /\ UpPropagate("UndefinedValueError")
            /\ UNCHANGED calls
    /\ UNCHANGED <<cmd, envSet, fileExists, exitCode, tempDir, headRes>>
    /\ UNCHANGED dvVars
    /\ UNCHANGED ccVars

\* bucket = config('AWS_STORAGE_BUCKET_NAME')
UpBucket ==
    /\ pc = "up_bucket"
    /\ IF "AWS_STORAGE_BUCKET_NAME" \in envSet
       THEN /\ pc' = "up_head"
            /\ UNCHANGED <<upStatus, exc>>
       ELSE UpPropagate("UndefinedValueError")
    /\ UNCHANGED <<cmd, envSet, fileExists, exitCode, tempDir, headRes, calls>>
    /\ UNCHANGED dvVars
    /\ UNCHANGED ccVars

\* try: s3_client.head_bucket(Bucket=bucket)  except ClientError: return False
UpHead ==
    /\ pc = "up_head"
    /\ calls' = Append(calls, Call("head_bucket"))
    /\ \/ /\ headRes' = "ok"
          /\ pc' = "up_upload"
          /\ UNCHANGED <<upStatus, exc>>
       \/ \E e \in HeadErrors :
            /\ headRes' = e
            /\ IF Catches("ClientError", e)
               THEN /\ upStatus' = "false"
                    /\ pc' = UpContinuation
                    /\ exc' = exc
               ELSE UpPropagate(e)
    /\ UNCHANGED <<cmd, envSet, fileExists, exitCode, tempDir>>
    /\ UNCHANGED dvVars
    /\ UNCHANGED ccVars

\* try: s3_client.upload_file(...); return True  except ClientError: return False
UpUpload ==
    /\ pc = "up_upload"
    /\ calls' = Append(calls, Call("upload_file"))
    /\ \/ /\ upStatus' = "true"
          /\ pc' = UpContinuation
          /\ exc' = exc
       \/ \E e \in UploadErrors :
            IF Catches("ClientError", e)
            THEN /\ upStatus' = "false"
                 /\ pc' = UpContinuation
                 /\ exc' = exc
            ELSE UpPropagate(e)
    /\ UNCHANGED <<cmd, envSet, fileExists, exitCode, tempDir, headRes>>
    /\ UNCHANGED dvVars
    /\ UNCHANGED ccVars

(* --------------------------- commands ---------------------------------- *)
\* the process ends: sys.exit(code) or falling off the end of the command;
\* leaving a with-block on the way removes the temporary directory
Exit(code) ==
    /\ exitCode' = <<code>>
    /\ tempDir' = TempDirExit(tempDir)
    /\ pc' = "done"

\* an exception no function caught leaves the command (through its
\* with-block, if any) and the interpreter exits with status 1
Propagate ==
    /\ pc = "unwind"
    /\ Exit(1)
    /\ UNCHANGED <<cmd, envSet, fileExists, exc>>
    /\ UNCHANGED dvVars
    /\ UNCHANGED upVars
    /\ UNCHANGED ccVars

\* download(): the argument count check, then the with-block is entered
DownloadStart ==
    /\ cmd = "download"
    /\ pc = "start"
    /\ \E argc \in 1..2 :
         IF argc < 2
         THEN /\ Exit(1)
              /\ UNCHANGED dvStatus
         ELSE /\ tempDir' = "exists"
              /\ dvStatus' = "running"
              /\ pc' = "dv_extract"
              /\ UNCHANGED exitCode
    /\ UNCHANGED <<cmd, envSet, fileExists, exc, dirFiles, dlPath, dlTitle, title,
                   fetchRaised>>
    /\ UNCHANGED upVars
    /\ UNCHANGED ccVars

\* download(): the branch on file_path after download_video returned
DownloadAfter ==
    /\ cmd = "download"
    /\ pc = "dl_after"
    /\ IF dlPath # NoPath THEN Exit(0) ELSE Exit(1)
    /\ UNCHANGED <<cmd, envSet, fileExists, exc>>
    /\ UNCHANGED dvVars
    /\ UNCHANGED upVars
    /\ UNCHANGED ccVars

UploadStart_NoExistsCheck ==
    /\ cmd = "upload"
    /\ pc = "start"
    /\ \E parsed \in BOOLEAN :
         IF ~parsed
         THEN /\ Exit(2)
              /\ UNCHANGED upStatus
         ELSE /\ upStatus' = "running"
              /\ pc' = "up_client"
              /\ UNCHANGED <<exitCode, tempDir>>
    /\ UNCHANGED <<cmd, envSet, fileExists, exc, headRes, calls>>
    /\ UNCHANGED dvVars
    /\ UNCHANGED ccVars

\* upload(): parse_args (a usage error exits with status 2; runs that ask
\* argparse for -h/--help are not among the modelled command lines), the
\* file_path.exists() check, then the call of upload_file_to_s3
UploadStart ==
    /\ cmd = "upload"
    /\ pc = "start"
    /\ \E parsed \in BOOLEAN :
         IF ~parsed
         THEN /\ Exit(2)
              /\ UNCHANGED upStatus
         ELSE IF ~fileExists
         THEN /\ Exit(1)
              /\ UNCHANGED upStatus
         ELSE /\ upStatus' = "running"
              /\ pc' = "up_client"
              /\ UNCHANGED <<exitCode, tempDir>>
    /\ UNCHANGED <<cmd, envSet, fileExists, exc, headRes, calls>>
    /\ UNCHANGED dvVars
    /\ UNCHANGED ccVars

\* upload(): if not success: sys.exit(1)
UploadAfter ==
    /\ cmd = "upload"
    /\ pc = "upl_after"
    /\ IF upStatus = "true" THEN Exit(0) ELSE Exit(1)
    /\ UNCHANGED <<cmd, envSet, fileExists, exc>>
    /\ UNCHANGED dvVars
    /\ UNCHANGED upVars
    /\ UNCHANGED ccVars

\* youtube_to_s3(): parse_args (usage error: exit status 2; no -h/--help
\* runs), then the with-block is entered
YtStart ==
    /\ cmd = "youtube_to_s3"
    /\ pc = "start"
    /\ \E parsed \in BOOLEAN :
         IF ~parsed
         THEN /\ Exit(2)
              /\ UNCHANGED dvStatus
         ELSE /\ tempDir' = "exists"
              /\ dvStatus' = "running"
              /\ pc' = "dv_extract"
              /\ UNCHANGED exitCode
    /\ UNCHANGED <<cmd, envSet, fileExists, exc, dirFiles, dlPath, dlTitle, title,
                   fetchRaised>>
    /\ UNCHANGED upVars
    /\ UNCHANGED ccVars

YtAfterDownload_DirClosedFirst ==
    /\ cmd = "youtube_to_s3"
    /\ pc = "yt_after_dl"
    /\ IF dlPath = NoPath
       THEN /\ Exit(1)
            /\ UNCHANGED upStatus
       ELSE /\ upStatus' = "running"
            /\ tempDir' = TempDirExit(tempDir)
            /\ pc' = "up_client"
            /\ UNCHANGED exitCode
    /\ UNCHANGED <<cmd, envSet, fileExists, exc, headRes, calls>>
    /\ UNCHANGED dvVars
    /\ UNCHANGED ccVars

\* youtube_to_s3(): if not file_path: sys.exit(1); else upload_file_to_s3 is
\* called, still inside the with-block
YtAfterDownload ==
    /\ cmd = "youtube_to_s3"
    /\ pc = "yt_after_dl"
    /\ IF dlPath = NoPath
       THEN /\ Exit(1)
            /\ UNCHANGED upStatus
       ELSE /\ upStatus' = "running"
            /\ pc' = "up_client"
            /\ UNCHANGED <<exitCode, tempDir>>
    /\ UNCHANGED <<cmd, envSet, fileExists, exc, headRes, calls>>
    /\ UNCHANGED dvVars
    /\ UNCHANGED ccVars

YtAfterUpload_IgnoresResult ==
    /\ cmd = "youtube_to_s3"
    /\ pc = "yt_after_up"
    /\ Exit(0)
    /\ UNCHANGED <<cmd, envSet, fileExists, exc>>
    /\ UNCHANGED dvVars
    /\ UNCHANGED upVars
    /\ UNCHANGED ccVars

\* youtube_to_s3(): if success: done, else sys.exit(1)
YtAfterUpload ==
    /\ cmd = "youtube_to_s3"
    /\ pc = "yt_after_up"
    /\ IF upStatus = "true" THEN Exit(0) ELSE Exit(1)
    /\ UNCHANGED <<cmd, envSet, fileExists, exc>>
    /\ UNCHANGED dvVars
    /\ UNCHANGED upVars
    /\ UNCHANGED ccVars

(* -------------------------- check_config ------------------------------- *)
CheckConfigStart ==
    /\ cmd = "check_config"
    /\ pc = "start"
    /\ pc' = "cc_loop"
    /\ UNCHANGED <<cmd, envSet, fileExists, exitCode, tempDir, exc>>
    /\ UNCHANGED dvVars
    /\ UNCHANGED upVars
    /\ UNCHANGED ccVars

CheckVar_StopsAtFirstMissing ==
    /\ pc = "cc_loop"
    /\ idx <= Len(required_vars)
    /\ LET var == required_vars[idx] IN
         /\ attempted' = Append(attempted, var)
         /\ IF var \in envSet
            THEN /\ \E value \in Values :
                      lastPrinted' = [var |-> var, value |-> value, masked |-> Mask(value)]
                 /\ idx' = idx + 1
                 /\ UNCHANGED missing
            ELSE /\ missing' = Append(missing, var)
                 /\ idx' = Len(required_vars) + 1
                 /\ UNCHANGED lastPrinted
    /\ UNCHANGED <<cmd, pc, envSet, fileExists, exitCode, tempDir, exc>>
    /\ UNCHANGED dvVars
    /\ UNCHANGED upVars

\* one iteration of `for var in required_vars`: config(var) either returns
\* a value, printed masked, or raises and the bare except records the key
CheckVar ==
    /\ pc = "cc_loop"
    /\ idx <= Len(required_vars)
    /\ LET var == required_vars[idx] IN
         /\ attempted' = Append(attempted, var)
         /\ idx' = idx + 1
         /\ IF var \in envSet
            THEN /\ \E value \in Values :
                      lastPrinted' = [var |-> var, value |-> value, masked |-> Mask(value)]
                 /\ UNCHANGED missing
            ELSE /\ missing' = Append(missing, var)
                 /\ UNCHANGED lastPrinted
    /\ UNCHANGED <<cmd, pc, envSet, fileExists, exitCode, tempDir, exc>>
    /\ UNCHANGED dvVars
    /\ UNCHANGED upVars

\* after the loop: if missing: sys.exit(1), else the command ends normally
CheckEnd ==
    /\ pc = "cc_loop"
    /\ idx > Len(required_vars)
    /\ IF missing # <<>> THEN Exit(1) ELSE Exit(0)
    /\ UNCHANGED <<cmd, envSet, fileExists, exc>>
    /\ UNCHANGED dvVars
    /\ UNCHANGED upVars
    /\ UNCHANGED ccVars

(* --------------------------- specification ----------------------------- *)
Next ==
    \/ DownloadStart
    \/ DownloadAfter
    \/ UploadStart
    \/ UploadAfter
    \/ YtStart
    \/ YtAfterDownload
    \/ YtAfterUpload
    \/ DvExtract
    \/ DvDownload
    \/ DvScan
    \/ UpClient
    \/ UpBucket
    \/ UpHead
    \/ UpUpload
    \/ Propagate
    \/ CheckConfigStart
    \/ CheckVar
    \/ CheckEnd

Spec == Init /\ [][Next]_vars

TypeOK ==
    /\ cmd \in Commands
    /\ exitCode \in {NoExit, <<0>>, <<1>>, <<2>>}
    /\ tempDir \in {"none", "exists", "removed"}
    /\ dirFiles \in DirContents
    /\ dlPath \in 0..MaxEntries
    /\ dvStatus \in {"notcalled", "running", "returned", "raised"}
    /\ upStatus \in {"notcalled", "running", "true", "false", "raised"}
    /\ headRes \in {"none", "ok"} \cup HeadErrors

(* ----------------------------- claims ---------------------------------- *)
HasCall(op) == \E i \in DOMAIN calls : calls[i].op = op
Terminated == pc = "done"

\* C1: every call of upload_file_to_s3 ends by returning a boolean; no
\* failure of the bucket check, the upload or the configuration reads
\* leaves the function as an exception.
C1_UploaderNeverPropagates == upStatus # "raised"

\* C2: upload_file is issued only after head_bucket succeeded in the same
\* call, and whenever head_bucket fails upload_file_to_s3 returns false
\* without issuing upload_file.
C2_UploadOnlyAfterBucketCheck ==
    /\ HasCall("upload_file") => headRes = "ok"
    /\ headRes \in HeadErrors => (upStatus = "false" /\ ~HasCall("upload_file"))

\* the ordering half of C2 taken alone: no upload_file without a
\* successful head_bucket before it
UploadImpliesBucketChecked ==
    \A i \in DOMAIN calls :
        calls[i].op = "upload_file" =>
            /\ headRes = "ok"
            /\ \E j \in 1..(i - 1) : calls[j].op = "head_bucket"

\* C3: an upload command whose file_path does not exist makes no
\* storage-client call (no client construction, bucket check or upload) and
\* ends with a non-zero exit status.
C3_MissingFileNoStorageCall ==
    (cmd = "upload" /\ ~fileExists) =>
        /\ calls = <<>>
        /\ upStatus = "notcalled"
        /\ Terminated => exitCode \in {<<1>>, <<2>>}

C3_Witness ==
    cmd = "upload" /\ ~fileExists /\ Terminated /\ exitCode = <<1>>

\* C4: whenever the fetch library raised inside download_video, during
\* extract_info or during download, download_video returned (None, None)
\* and no exception left it.
C4_FetchRaiseGivesAbsentPair ==
    fetchRaised # "none" =>
        /\ dvStatus = "returned"
        /\ dlPath = NoPath
        /\ dlTitle = None

C4_Witness ==
    fetchRaised = "download" /\ dvStatus = "returned" /\ Len(dirFiles) > 0

\* C5: in every result of download_video the path is set exactly when the
\* scan of the destination directory after the download found a regular
\* file, and path and title are absent together.
C5_PathIffFileFound ==
    dvStatus = "returned" =>
        /\ dlPath # NoPath <=>
              (fetchRaised = "none" /\ \E i \in DOMAIN dirFiles : dirFiles[i] = "file")
        /\ dlPath # NoPath => dirFiles[dlPath] = "file"
        /\ dlPath = NoPath <=> dlTitle = None

C5_Witness ==
    /\ dvStatus = "returned"
    /\ dlPath = 2
    /\ dirFiles[1] = "dir"
    /\ dlTitle = "video"

\* C6: when a download or youtube_to_s3 process has terminated, on any
\* exit path, the temporary directory it created does not exist.
C6_TempDirGoneAtExit ==
    (cmd \in {"download", "youtube_to_s3"} /\ Terminated) => tempDir # "exists"

C6_Witness ==
    /\ cmd = "youtube_to_s3"
    /\ Terminated
    /\ upStatus = "raised"
    /\ tempDir = "removed"

\* C7: in youtube_to_s3 an absent download path means a non-zero exit with
\* upload_file_to_s3 never called; the exit status is zero exactly when a
\* path was returned and upload_file_to_s3 returned true, and non-zero when
\* it returned false.
C7_YtExitStatus ==
    cmd = "youtube_to_s3" =>
        /\ (dvStatus = "returned" /\ dlPath = NoPath) =>
               (upStatus = "notcalled" /\ calls = <<>>)
        /\ Terminated =>
               /\ exitCode = <<0>> <=> (dlPath # NoPath /\ upStatus = "true")
               /\ upStatus = "false" => exitCode \in {<<1>>, <<2>>}
               /\ dlPath = NoPath => exitCode \in {<<1>>, <<2>>}

C7_Witness ==
    /\ cmd = "youtube_to_s3"
    /\ Terminated
    /\ exitCode = <<0>>
    /\ upStatus = "true"
    /\ dlPath # NoPath

\* C8: a finished check_config run has attempted all three required keys,
\* exits non-zero exactly when some key could not be read, and reports as
\* missing exactly the keys that could not be read.
C8_CheckConfigReadsAll ==
    (cmd = "check_config" /\ Terminated) =>
        /\ attempted = required_vars
        /\ exitCode # <<0>> <=> RequiredSet \ envSet # {}
        /\ exitCode \in {<<0>>, <<1>>}
        /\ {missing[i] : i \in DOMAIN missing} = RequiredSet \ envSet
        /\ Len(missing) = Cardinality(RequiredSet \ envSet)

C8_Witness ==
    /\ cmd = "check_config"
    /\ Terminated
    /\ missing = <<"AWS_ACCESS_KEY_ID", "AWS_STORAGE_BUCKET_NAME">>
    /\ exitCode = <<1>>

\* C9: a printed value of length at least 4 is masked to the same length,
\* ends with its own last four characters, and has '*' everywhere before.
C9_MaskingLaw ==
    (lastPrinted.var # "" /\ Len(lastPrinted.value) >= ShownChars) =>
        LET v == lastPrinted.value
            m == lastPrinted.masked
        IN /\ Len(m) = Len(v)
           /\ \A i \in 1..Len(v) :
                 IF i > Len(v) - ShownChars THEN m[i] = v[i] ELSE m[i] = "*"

C9_Witness ==
    /\ lastPrinted.var # ""
    /\ Len(lastPrinted.value) = 5
    /\ lastPrinted.value[1] = "a"
    /\ lastPrinted.masked[1] = "*"

\* C10: in youtube_to_s3 every storage call of upload_file_to_s3 is made
\* while the temporary directory exists, and the directory is not removed
\* while upload_file_to_s3 is running.
C10_StorageCallsInsideTempDir ==
    cmd = "youtube_to_s3" =>
        /\ \A i \in DOMAIN calls : calls[i].dir = "exists"
        /\ upStatus = "running" => tempDir = "exists"

C10_Witness ==
    /\ cmd = "youtube_to_s3"
    /\ Terminated
    /\ HasCall("upload_file")
    /\ tempDir = "removed"

====
